---- MODULE Spec2Model ----
(***************************************************************************)
(* A model of the BOINC GUI_RPC client library (src/src/boinc/client.py)   *)
(* and of the polling caller in src/monitor.py.                            *)
(*                                                                         *)
(* Python strings are TLA+ strings, read character by character with       *)
(* SubSeq.  An optional value (Python's None or a value) is a sequence of  *)
(* length 0 or 1.  A Python value is a record [k |-> kind, v |-> payload]. *)
(* A float is held in thousandths, as an integer.  An XML element is a     *)
(* record [tag, text, children] with text optional, as in ElementTree.     *)
(***************************************************************************)
EXTENDS Integers, Sequences, FiniteSets, TLC

\* ------------------------------------------------------------------ strings

None == <<>>
Some(x) == <<x>>

CharAt(s, i) == SubSeq(s, i, i)

Whitespace == {" ", "\t", "\n", "\r"}

Digits == {"0", "1", "2", "3", "4", "5", "6", "7", "8", "9"}

DigitVal(c) ==
    CASE c = "0" -> 0 [] c = "1" -> 1 [] c = "2" -> 2 [] c = "3" -> 3
      [] c = "4" -> 4 [] c = "5" -> 5 [] c = "6" -> 6 [] c = "7" -> 7
      [] c = "8" -> 8 [] c = "9" -> 9

DigitChar(d) ==
    CASE d = 0 -> "0" [] d = 1 -> "1" [] d = 2 -> "2" [] d = 3 -> "3"
      [] d = 4 -> "4" [] d = 5 -> "5" [] d = 6 -> "6" [] d = 7 -> "7"
      [] d = 8 -> "8" [] d = 9 -> "9"

\* str.lower(), one character.
LowerChar(c) ==
    CASE c = "A" -> "a" [] c = "B" -> "b" [] c = "C" -> "c" [] c = "D" -> "d"
      [] c = "E" -> "e" [] c = "F" -> "f" [] c = "G" -> "g" [] c = "H" -> "h"
      [] c = "I" -> "i" [] c = "J" -> "j" [] c = "K" -> "k" [] c = "L" -> "l"
      [] c = "M" -> "m" [] c = "N" -> "n" [] c = "O" -> "o" [] c = "P" -> "p"
      [] c = "Q" -> "q" [] c = "R" -> "r" [] c = "S" -> "s" [] c = "T" -> "t"
      [] c = "U" -> "u" [] c = "V" -> "v" [] c = "W" -> "w" [] c = "X" -> "x"
      [] c = "Y" -> "y" [] c = "Z" -> "z" [] OTHER -> c

RECURSIVE Lower(_)
Lower(s) ==
    IF s = "" THEN ""
    ELSE LowerChar(CharAt(s, 1)) \o Lower(SubSeq(s, 2, Len(s)))

RECURSIVE LStrip(_)
LStrip(s) ==
    IF s # "" /\ CharAt(s, 1) \in Whitespace
    THEN LStrip(SubSeq(s, 2, Len(s))) ELSE s

RECURSIVE RStrip(_)
RStrip(s) ==
    IF s # "" /\ CharAt(s, Len(s)) \in Whitespace
    THEN RStrip(SubSeq(s, 1, Len(s) - 1)) ELSE s

\* str.strip()
Strip(s) == RStrip(LStrip(s))

StartsWith(s, p) == Len(s) >= Len(p) /\ SubSeq(s, 1, Len(p)) = p

EndsWith(s, p) ==
    Len(s) >= Len(p) /\ SubSeq(s, Len(s) - Len(p) + 1, Len(s)) = p

\* str.replace(old, new) for a non-empty old: leftmost matches, not overlapping.
RECURSIVE Replace(_, _, _)
Replace(s, old, new) ==
    IF s = "" THEN ""
    ELSE IF StartsWith(s, old)
         THEN new \o Replace(SubSeq(s, Len(old) + 1, Len(s)), old, new)
         ELSE CharAt(s, 1) \o Replace(SubSeq(s, 2, Len(s)), old, new)

\* The position of the first c in s, 0 when there is none.
RECURSIVE IndexOf(_, _, _)
IndexOf(s, c, i) ==
    IF i > Len(s) THEN 0
    ELSE IF CharAt(s, i) = c THEN i ELSE IndexOf(s, c, i + 1)

IsDigits(s) == \A i \in 1..Len(s) : CharAt(s, i) \in Digits

RECURSIVE NatOf(_)
NatOf(s) ==
    IF s = "" THEN 0
    ELSE NatOf(SubSeq(s, 1, Len(s) - 1)) * 10 + DigitVal(CharAt(s, Len(s)))

\* "%d" of a natural number.
RECURSIVE NatToStr(_)
NatToStr(n) ==
    IF n < 10 THEN DigitChar(n)
    ELSE NatToStr(n \div 10) \o DigitChar(n % 10)

\* n written with exactly w digits (n < 10^w).
RECURSIVE ZeroPad(_, _)
ZeroPad(n, w) ==
    IF w = 0 THEN "" ELSE ZeroPad(n \div 10, w - 1) \o DigitChar(n % 10)

\* "%s" of an optional string: None prints as the word None.
FormatS(o) == IF o = None THEN "None" ELSE o[1]

\* ------------------------------------------------------------ Python values

PyNone == [k |-> "none"]
PyBool(b) == [k |-> "bool", v |-> b]
PyInt(n) == [k |-> "int", v |-> n]
PyFloat(m) == [k |-> "float", v |-> m]
PyStr(s) == [k |-> "str", v |-> s]
PyList(l) == [k |-> "list", v |-> l]
PyElem(e) == [k |-> "elem", v |-> e]
PyMethod == [k |-> "method"]
Raised(x) == [k |-> "exc", v |-> x]

IsRaised(x) == x.k = "exc"

\* An XML element as ElementTree holds it.
Element(tag, text, children) ==
    [tag |-> tag, text |-> text, children |-> children]

\* <tag>text</tag>
Leaf(tag, s) == Element(tag, Some(s), <<>>)

\* <tag/>
Empty(tag) == Element(tag, None, <<>>)

\* float(s) in thousandths for the decimal notation [sign] digits [. digits]
\* with at most three decimals; the texts of this model use no other notation
\* (no exponent, inf, nan or digit separator), so any other text is the
\* ValueError float() raises.
FloatOfText(s) ==
    LET value(neg, ip, fp) ==
            IF IsDigits(ip) /\ IsDigits(fp) /\ Len(ip) + Len(fp) > 0
            THEN PyFloat((IF neg THEN -1 ELSE 1)
                         * (NatOf(ip) * 1000 + NatOf(SubSeq(fp \o "000", 1, 3))))
            ELSE Raised("ValueError")
        split(neg, body, dot) ==
            IF dot = 0 THEN value(neg, body, "")
            ELSE value(neg, SubSeq(body, 1, dot - 1),
                       SubSeq(body, dot + 1, Len(body)))
        unsigned(neg, body) == split(neg, body, IndexOf(body, ".", 1))
    IN  IF StartsWith(s, "-") THEN unsigned(TRUE, SubSeq(s, 2, Len(s)))
        ELSE IF StartsWith(s, "+") THEN unsigned(FALSE, SubSeq(s, 2, Len(s)))
        ELSE split(FALSE, s, IndexOf(s, ".", 1))

\* int(x) of a float: truncation toward zero.
IntOfFloat(m) == IF m >= 0 THEN m \div 1000 ELSE 0 - ((0 - m) \div 1000)

parse_bool(e) ==
    IF e.text = None THEN PyBool(TRUE)
    ELSE PyBool(e.text[1] # ""
                /\ ~ (Lower(Strip(e.text[1])) \in {"0", "false"}))

parse_int(e) ==
    LET int(f) == IF IsRaised(f) THEN f ELSE PyInt(IntOfFloat(f.v))
    IN  IF e.text = None THEN PyInt(0)
        ELSE int(FloatOfText(Strip(e.text[1])))

parse_float(e) ==
    IF e.text = None THEN PyFloat(0) ELSE FloatOfText(Strip(e.text[1]))

parse_str(e) == IF e.text = None THEN PyStr("") ELSE PyStr(Strip(e.text[1]))

parse_list(e) == PyList(e.children)

\* Attributes every instance finds on its class rather than in its own fields
\* (methods and properties): hasattr() is true of them too.
ClassAttrs(cls) ==
    {"parse", "__str__", "__init__"}
        \cup (IF cls = "VersionInfo"
              THEN {"_tuple", "__eq__", "__ne__", "__gt__", "__repr__"}
              ELSE {})

\* Properties without a setter: setattr() raises AttributeError.
ReadOnlyAttrs(cls) == IF cls = "VersionInfo" THEN {"_tuple"} ELSE {}

\* An instance of an entity class: its class and its own fields.
PyObj(cls, f) == [k |-> "obj", cls |-> cls, f |-> f]

HasAttr(obj, tag) == tag \in DOMAIN obj.f \/ tag \in ClassAttrs(obj.cls)

GetAttr(obj, tag) == IF tag \in DOMAIN obj.f THEN obj.f[tag] ELSE PyMethod

SetAttr(obj, tag, val) ==
    IF tag \in DOMAIN obj.f THEN [obj EXCEPT !.f[tag] = val]
    ELSE IF tag \in ReadOnlyAttrs(obj.cls) THEN Raised("AttributeError")
    ELSE [obj EXCEPT !.f = obj.f @@ (tag :> val)]

\* The body of the loop of setattrs_from_xml for one child e: the decode
\* function is chosen by the type of the attribute's current value, bool
\* before int; a tag the object has no attribute for is only printed.
SetAttrFromChild(obj, e) ==
    LET set(val) == IF IsRaised(val) THEN val ELSE SetAttr(obj, e.tag, val)
        attrfunc(attr) ==
            CASE attr.k = "bool" -> parse_bool(e)
              [] attr.k = "int" -> parse_int(e)
              [] attr.k = "float" -> parse_float(e)
              [] attr.k = "str" -> parse_str(e)
              [] attr.k = "list" -> parse_list(e)
              [] OTHER -> PyElem(e)
    IN  IF HasAttr(obj, e.tag) THEN set(attrfunc(GetAttr(obj, e.tag)))
        ELSE obj

\* The loop of setattrs_from_xml from child i on; an exception ends the loop
\* and is the outcome.
RECURSIVE SetAttrsFrom(_, _, _)
SetAttrsFrom(obj, children, i) ==
    LET next(o) == IF IsRaised(o) THEN o ELSE SetAttrsFrom(o, children, i + 1)
    IN  IF i > Len(children) THEN obj
        ELSE next(SetAttrFromChild(obj, children[i]))

\* setattrs_from_xml(obj, xml); no caller passes an attrfuncdict.
setattrs_from_xml(obj, xml) == SetAttrsFrom(obj, xml.children, 1)

\* ------------------------------------------------------------- enumerations

UNKNOWN == -1

ALWAYS == 1

AUTO == 2

NEVER == 3

RESTORE == 4

\* RunMode.__dict__, the enumeration's own members in definition order.
RunMode_dict ==
    << <<"ALWAYS", ALWAYS>>, <<"AUTO", AUTO>>,
       <<"NEVER", NEVER>>, <<"RESTORE", RESTORE>> >>

\* The loop of Enum.name over cls.__dict__: the label of the first member
\* equal to value, None when there is none.
RECURSIVE LookupFrom(_, _, _)
LookupFrom(dict, value, i) ==
    IF i > Len(dict) THEN None
    ELSE IF dict[i][2] = value
         THEN Some(Replace(Lower(dict[i][1]), "_", " "))
         ELSE LookupFrom(dict, value, i + 1)

\* Enum.name(value) for an integer value, called on the class whose own
\* members are dict. A code that is no member is looked up again as
\* cls.name(UNKNOWN): onUnknown is the label the name() override of cls gives
\* UNKNOWN, None when it has no override or the override leaves UNKNOWN to
\* Enum.name. UNKNOWN is a member of Enum, not of cls, so in that case the
\* call comes back here with the same arguments, without end, until Python
\* raises RecursionError.
Enum_name(dict, onUnknown, value) ==
    LET found == LookupFrom(dict, value, 1)
    IN  IF found # None THEN PyStr(found[1])
        ELSE IF onUnknown # None THEN PyStr(onUnknown[1])
        ELSE Raised("RecursionError")

RunMode_name(v) ==
    IF v = AUTO THEN PyStr("according to preferences")
    ELSE Enum_name(RunMode_dict, None, v)
\* The own members of the other enumerations, in definition order.
NetworkStatus_dict ==
    << <<"ONLINE", 0>>, <<"WANT_CONNECTION", 1>>, <<"WANT_DISCONNECT", 2>>,
       <<"LOOKUP_PENDING", 3>> >>

SuspendReason_dict ==
    << <<"NOT_SUSPENDED", 0>>, <<"BATTERIES", 1>>, <<"USER_ACTIVE", 2>>,
       <<"USER_REQ", 4>>, <<"TIME_OF_DAY", 8>>, <<"BENCHMARKS", 16>>,
       <<"DISK_SIZE", 32>>, <<"CPU_THROTTLE", 64>>,
       <<"NO_RECENT_INPUT", 128>>, <<"INITIAL_DELAY", 256>>,
       <<"EXCLUSIVE_APP_RUNNING", 512>>, <<"CPU_USAGE", 1024>>,
       <<"NETWORK_QUOTA_EXCEEDED", 2048>>, <<"OS", 4096>>,
       <<"WIFI_STATE", 4097>>, <<"BATTERY_CHARGING", 4098>>,
       <<"BATTERY_OVERHEATED", 4099>> >>

CpuSched_dict ==
    << <<"UNINITIALIZED", 0>>, <<"PREEMPTED", 1>>, <<"SCHEDULED", 2>> >>

ResultState_dict ==
    << <<"NEW", 0>>, <<"FILES_DOWNLOADING", 1>>, <<"FILES_DOWNLOADED", 2>>,
       <<"COMPUTE_ERROR", 3>>, <<"FILES_UPLOADING", 4>>,
       <<"FILES_UPLOADED", 5>>, <<"ABORTED", 6>>, <<"UPLOAD_FAILED", 7>> >>

Process_dict ==
    << <<"UNINITIALIZED", 0>>, <<"EXECUTING", 1>>, <<"SUSPENDED", 9>>,
       <<"ABORT_PENDING", 5>>, <<"QUIT_PENDING", 8>>, <<"COPY_PENDING", 10>> >>

NetworkStatus_name(v) ==
    IF v = UNKNOWN THEN PyStr("unknown")
    ELSE IF v = 0 THEN PyStr("up")
    ELSE IF v = 1 THEN PyStr("need connection")
    ELSE IF v = 2 THEN PyStr("do not need connection")
    ELSE IF v = 3 THEN PyStr("reference site lookup pending")
    ELSE Enum_name(NetworkStatus_dict, Some("unknown"), v)

SuspendReason_name(v) ==
    IF v = UNKNOWN THEN PyStr("unknown reason")
    ELSE IF v = 1 THEN PyStr("on batteries")
    ELSE IF v = 2 THEN PyStr("computer is in use")
    ELSE IF v = 4 THEN PyStr("user request")
    ELSE IF v = 8 THEN PyStr("time of day")
    ELSE IF v = 16 THEN PyStr("CPU benchmarks in progress")
    ELSE IF v = 32 THEN PyStr("need disk space - check preferences")
    ELSE IF v = 128 THEN PyStr("no recent user activity")
    ELSE IF v = 256 THEN PyStr("initial delay")
    ELSE IF v = 512 THEN PyStr("an exclusive app is running")
    ELSE IF v = 1024 THEN PyStr("CPU is busy")
    ELSE IF v = 2048 THEN PyStr("network bandwidth limit exceeded")
    ELSE IF v = 4096 THEN PyStr("requested by operating system")
    ELSE IF v = 4097 THEN PyStr("not connected to WiFi network")
    ELSE IF v = 4098 THEN PyStr("battery is recharging")
    ELSE IF v = 4099 THEN PyStr("battery is overheated")
    ELSE Enum_name(SuspendReason_dict, Some("unknown reason"), v)

\* CpuSched, ResultState and Process have no name() of their own.
CpuSched_name(v) == Enum_name(CpuSched_dict, None, v)

ResultState_name(v) == Enum_name(ResultState_dict, None, v)

Process_name(v) == Enum_name(Process_dict, None, v)

\* cls.name(v) of the enumeration named cls.
EnumName(cls, v) ==
    CASE cls = "NetworkStatus" -> NetworkStatus_name(v)
      [] cls = "SuspendReason" -> SuspendReason_name(v)
      [] cls = "RunMode" -> RunMode_name(v)
      [] cls = "CpuSched" -> CpuSched_name(v)
      [] cls = "ResultState" -> ResultState_name(v)
      [] cls = "Process" -> Process_name(v)


\* ----------------------------------------------------------------- entities

\* VersionInfo.__init__: the default value of every field.
VersionInfo_init ==
    [ major |-> PyInt(0),
      minor |-> PyInt(0),
      release |-> PyInt(0) ]

\* CcStatus.__init__: the default value of every field.
CcStatus_init ==
    [ network_status |-> PyInt(-1),
      ams_password_error |-> PyBool(FALSE),
      manager_must_quit |-> PyBool(FALSE),
      task_suspend_reason |-> PyInt(-1),
      task_mode |-> PyInt(-1),
      task_mode_perm |-> PyInt(-1),
      task_mode_delay |-> PyFloat(0),
      network_suspend_reason |-> PyInt(-1),
      network_mode |-> PyInt(-1),
      network_mode_perm |-> PyInt(-1),
      network_mode_delay |-> PyFloat(0),
      gpu_suspend_reason |-> PyInt(-1),
      gpu_mode |-> PyInt(-1),
      gpu_mode_perm |-> PyInt(-1),
      gpu_mode_delay |-> PyFloat(0),
      disallow_attach |-> PyBool(FALSE),
      simple_gui_only |-> PyBool(FALSE) ]

\* HostInfo.__init__: the default value of every field.
HostInfo_init ==
    [ timezone |-> PyInt(0),
      domain_name |-> PyStr(""),
      ip_addr |-> PyStr(""),
      host_cpid |-> PyStr(""),
      p_ncpus |-> PyInt(0),
      p_vendor |-> PyStr(""),
      p_model |-> PyStr(""),
      p_features |-> PyStr(""),
      p_fpops |-> PyFloat(0),
      p_iops |-> PyFloat(0),
      p_membw |-> PyFloat(0),
      p_calculated |-> PyFloat(0),
      p_vm_extensions_disabled |-> PyBool(FALSE),
      m_nbytes |-> PyInt(0),
      m_cache |-> PyInt(0),
      m_swap |-> PyInt(0),
      d_total |-> PyInt(0),
      d_free |-> PyInt(0),
      os_name |-> PyStr(""),
      os_version |-> PyStr(""),
      virtualbox_version |-> PyStr(""),
      product_name |-> PyStr(""),
      wsl_available |-> PyBool(FALSE),
      coprocs |-> PyList(<<>>),
      n_usable_coprocs |-> PyInt(0),
      serialnum |-> PyStr("") ]

\* Coproc.__init__: the default value of every field.
Coproc_init ==
    [ type |-> PyStr(""),
      count |-> PyInt(0),
      peak_flops |-> PyFloat(0),
      used |-> PyFloat(0),
      have_cuda |-> PyBool(FALSE),
      have_cal |-> PyBool(FALSE),
      have_opencl |-> PyBool(FALSE),
      available_ram |-> PyInt(0),
      specified_in_config |-> PyBool(FALSE),
      req_secs |-> PyFloat(0),
      req_instances |-> PyFloat(0),
      estimated_delay |-> PyInt(0),
      opencl_device_count |-> PyInt(0),
      last_print_time |-> PyFloat(0) ]

\* Project.__init__: the default value of every field.
Project_init ==
    [ master_url |-> PyStr(""),
      project_name |-> PyStr(""),
      symstore |-> PyNone,
      user_name |-> PyStr(""),
      team_name |-> PyStr(""),
      host_venue |-> PyNone,
      email_hash |-> PyStr(""),
      cross_project_id |-> PyStr(""),
      external_cpid |-> PyStr(""),
      cpid_time |-> PyFloat(0),
      user_total_credit |-> PyFloat(0),
      user_expavg_credit |-> PyFloat(0),
      user_create_time |-> PyFloat(0),
      rpc_seqno |-> PyInt(0),
      userid |-> PyInt(0),
      teamid |-> PyInt(0),
      hostid |-> PyInt(0),
      host_total_credit |-> PyFloat(0),
      host_expavg_credit |-> PyFloat(0),
      host_create_time |-> PyFloat(0),
      min_rpc_time |-> PyFloat(0),
      next_rpc_time |-> PyFloat(0),
      nrpc_failures |-> PyNone,
      master_fetch_failures |-> PyNone,
      rec |-> PyFloat(0),
      rec_time |-> PyFloat(0),
      resource_share |-> PyFloat(0),
      desired_disk_usage |-> PyFloat(0),
      duration_correction_factor |-> PyFloat(0),
      sched_rpc_pending |-> PyInt(0),
      send_time_stats_log |-> PyInt(0),
      send_job_log |-> PyInt(0),
      njobs_success |-> PyInt(0),
      njobs_error |-> PyInt(0),
      elapsed_time |-> PyFloat(0),
      last_rpc_time |-> PyFloat(0),
      dont_use_dcf |-> PyNone,
      rsc_backoff_time |-> PyNone,
      rsc_backoff_interval |-> PyNone,
      dont_request_more_work |-> PyNone,
      verify_files_on_app_start |-> PyNone,
      gui_urls |-> PyList(<<>>),
      sched_priority |-> PyFloat(0),
      project_files_downloaded_time |-> PyFloat(0),
      project_dir |-> PyStr(""),
      venue |-> PyNone ]

\* Result.__init__: the default value of every field.
Result_init ==
    [ name |-> PyStr(""),
      wu_name |-> PyStr(""),
      version_num |-> PyInt(0),
      plan_class |-> PyStr(""),
      project_url |-> PyStr(""),
      report_deadline |-> PyFloat(0),
      received_time |-> PyFloat(0),
      ready_to_report |-> PyBool(FALSE),
      got_server_ack |-> PyBool(FALSE),
      final_cpu_time |-> PyFloat(0),
      final_elapsed_time |-> PyFloat(0),
      state |-> PyInt(0),
      estimated_cpu_time_remaining |-> PyFloat(0),
      exit_status |-> PyInt(0),
      suspended_via_gui |-> PyBool(FALSE),
      project_suspended_via_gui |-> PyBool(FALSE),
      edf_scheduled |-> PyBool(FALSE),
      coproc_missing |-> PyBool(FALSE),
      scheduler_wait |-> PyBool(FALSE),
      scheduler_wait_reason |-> PyStr(""),
      network_wait |-> PyBool(FALSE),
      resources |-> PyStr(""),
      active_task |-> PyBool(FALSE),
      active_task_state |-> PyInt(0),
      app_version_num |-> PyInt(0),
      slot |-> PyInt(-1),
      pid |-> PyInt(0),
      scheduler_state |-> PyInt(0),
      checkpoint_cpu_time |-> PyFloat(0),
      current_cpu_time |-> PyFloat(0),
      fraction_done |-> PyFloat(0),
      elapsed_time |-> PyFloat(0),
      swap_size |-> PyInt(0),
      working_set_size_smoothed |-> PyFloat(0),
      too_large |-> PyBool(FALSE),
      needs_shmem |-> PyBool(FALSE),
      graphics_exec_path |-> PyStr(""),
      web_graphics_url |-> PyStr(""),
      remote_desktop_addr |-> PyStr(""),
      slot_path |-> PyStr(""),
      completed_time |-> PyFloat(0),
      report_immediately |-> PyBool(FALSE),
      working_set_size |-> PyInt(0),
      page_fault_rate |-> PyFloat(0),
      signal |-> PyInt(0),
      app |-> PyNone,
      wup |-> PyNone,
      project |-> PyNone,
      avp |-> PyNone,
      progress_rate |-> PyNone,
      platform |-> PyNone,
      bytes_sent |-> PyNone,
      bytes_received |-> PyNone ]

ClassInit(cls) ==
    CASE cls = "VersionInfo" -> VersionInfo_init
      [] cls = "CcStatus" -> CcStatus_init
      [] cls = "HostInfo" -> HostInfo_init
      [] cls = "Coproc" -> Coproc_init
      [] cls = "Project" -> Project_init
      [] cls = "Result" -> Result_init

\* _Struct.parse: a fresh instance of cls filled from xml.
Struct_parse(cls, xml) == setattrs_from_xml(PyObj(cls, ClassInit(cls)), xml)

\* xml.find(tag): the first child with that tag, None when there is none.
RECURSIVE FindFrom(_, _, _)
FindFrom(children, tag, i) ==
    IF i > Len(children) THEN None
    ELSE IF children[i].tag = tag THEN Some(children[i])
         ELSE FindFrom(children, tag, i + 1)

\* The shim taking both elapsed times from current_cpu_time.
ResultShim_FromCurrent(result) ==
    LET final(r) ==
            IF r.f.final_cpu_time.v # 0 /\ r.f.final_elapsed_time.v = 0
            THEN [r EXCEPT !.f.final_elapsed_time = r.f.current_cpu_time]
            ELSE r
    IN  IF result.f.current_cpu_time.v # 0 /\ result.f.elapsed_time.v = 0
        THEN final([result EXCEPT !.f.elapsed_time = result.f.current_cpu_time])
        ELSE final(result)

\* The compatibility shim at the end of Result.parse.
ResultShim(result) ==
    LET final(r) ==
            IF r.f.final_cpu_time.v # 0 /\ r.f.final_elapsed_time.v = 0
            THEN [r EXCEPT !.f.final_elapsed_time = r.f.final_cpu_time]
            ELSE r
    IN  IF result.f.current_cpu_time.v # 0 /\ result.f.elapsed_time.v = 0
        THEN final([result EXCEPT !.f.elapsed_time = result.f.current_cpu_time])
        ELSE final(result)

Result_parse(xml) ==
    LET shim(r) == IF IsRaised(r) THEN r ELSE ResultShim(r)
        active(main, active_task) ==
            IF IsRaised(main) THEN main
            ELSE IF active_task = None
                 THEN shim([main EXCEPT !.f.active_task = PyBool(FALSE)])
                 ELSE shim(setattrs_from_xml(
                               [main EXCEPT !.f.active_task = PyBool(TRUE)],
                               active_task[1]))
    IN  active(Struct_parse("Result", xml),
               FindFrom(xml.children, "active_task", 1))

Project_parse(xml) == Struct_parse("Project", xml)

\* "for item in ...: list.append(cls.parse(item))" for the classes parsed in
\* such loops, from item i on; an exception is the outcome.
RECURSIVE ParseEach(_, _, _, _)
ParseEach(cls, items, i, acc) ==
    LET next(o) ==
            IF IsRaised(o) THEN o
            ELSE ParseEach(cls, items, i + 1, Append(acc, o))
    IN  IF i > Len(items) THEN PyList(acc)
        ELSE next(CASE cls = "Result" -> Result_parse(items[i])
                    [] cls = "Project" -> Project_parse(items[i])
                    [] cls = "Coproc" -> Struct_parse("Coproc", items[i]))

HostInfo_parse(xml) ==
    LET set(hostinfo, aux) ==
            IF IsRaised(aux) THEN aux ELSE [hostinfo EXCEPT !.f.coprocs = aux]
        coprocs(hostinfo) ==
            IF IsRaised(hostinfo) THEN hostinfo
            ELSE set(hostinfo,
                     ParseEach("Coproc", hostinfo.f.coprocs.v, 1, <<>>))
    IN  coprocs(Struct_parse("HostInfo", xml))

\* ------------------------------------------------------- version comparison

\* VersionInfo(major, minor, release).
VersionInfo(major, minor, release) ==
    PyObj("VersionInfo",
          [major |-> PyInt(major), minor |-> PyInt(minor),
           release |-> PyInt(release)])

\* isinstance(other, self.__class__), for self a VersionInfo.
IsVersionInfo(other) == other.k = "obj" /\ other.cls = "VersionInfo"

\* VersionInfo._tuple
VersionInfo_tuple(self) == <<self.f.major.v, self.f.minor.v, self.f.release.v>>

\* s > t of two tuples of integers: decided by the first position where they
\* differ, else by their lengths.
RECURSIVE TupleGt(_, _, _)
TupleGt(s, t, i) ==
    IF i > Len(s) \/ i > Len(t) THEN Len(s) > Len(t)
    ELSE IF s[i] # t[i] THEN s[i] > t[i]
    ELSE TupleGt(s, t, i + 1)

NotImplemented == [k |-> "NotImplemented"]

VersionInfo_eq(self, other) ==
    PyBool(IsVersionInfo(other)
               /\ VersionInfo_tuple(self) = VersionInfo_tuple(other))

VersionInfo_ne(self, other) == PyBool(~ VersionInfo_eq(self, other).v)

\* __gt__ comparing the major numbers only.
VersionInfo_gt_MajorOnly(self, other) ==
    IF ~ IsVersionInfo(other) THEN NotImplemented
    ELSE PyBool(self.f.major.v > other.f.major.v)

VersionInfo_gt(self, other) ==
    IF ~ IsVersionInfo(other) THEN NotImplemented
    ELSE PyBool(TupleGt(VersionInfo_tuple(self), VersionInfo_tuple(other), 1))

\* What functools.total_ordering adds to a class that defines __gt__.
VersionInfo_lt(self, other) ==
    LET from(op_result) ==
            IF op_result = NotImplemented THEN op_result
            ELSE PyBool(~ op_result.v /\ VersionInfo_ne(self, other).v)
    IN  from(VersionInfo_gt(self, other))

VersionInfo_ge(self, other) ==
    LET from(op_result) ==
            IF op_result = NotImplemented THEN op_result
            ELSE PyBool(op_result.v \/ VersionInfo_eq(self, other).v)
    IN  from(VersionInfo_gt(self, other))

VersionInfo_le(self, other) ==
    LET from(op_result) ==
            IF op_result = NotImplemented THEN op_result
            ELSE PyBool(~ op_result.v)
    IN  from(VersionInfo_gt(self, other))

\* The comparison method of VersionInfo behind each operator.
VersionInfo_method(op, self, other) ==
    CASE op = "eq" -> VersionInfo_eq(self, other)
      [] op = "ne" -> VersionInfo_ne(self, other)
      [] op = "lt" -> VersionInfo_lt(self, other)
      [] op = "le" -> VersionInfo_le(self, other)
      [] op = "gt" -> VersionInfo_gt(self, other)
      [] op = "ge" -> VersionInfo_ge(self, other)

\* x op y as Python evaluates it, where a value that is no VersionInfo is of
\* a built-in type, whose own methods do not know VersionInfo: the left
\* operand's method, then the right operand's reflected one; when neither
\* knows the other, == and != go by identity and an ordering raises
\* TypeError.
Compare(op, x, y) ==
    LET reflected ==
            CASE op = "eq" -> "eq" [] op = "ne" -> "ne" [] op = "lt" -> "gt"
              [] op = "gt" -> "lt" [] op = "le" -> "ge" [] op = "ge" -> "le"
        neither ==
            IF op = "eq" THEN PyBool(FALSE)
            ELSE IF op = "ne" THEN PyBool(TRUE)
            ELSE Raised("TypeError")
        right(r) == IF r # NotImplemented THEN r ELSE neither
        left(r) ==
            IF r # NotImplemented THEN r
            ELSE right(IF IsVersionInfo(y)
                       THEN VersionInfo_method(reflected, y, x)
                       ELSE NotImplemented)
    IN  left(IF IsVersionInfo(x) THEN VersionInfo_method(op, x, y)
             ELSE NotImplemented)

\* The outcome of each comparison of x with y.
Comparisons(x, y) ==
    [op \in {"eq", "ne", "lt", "le", "gt", "ge"} |-> Compare(op, x, y)]

\* ---------------------------------------------------------------- transport
\* rpc.Rpc is not among the sources; it is modelled from the transport
\* contract of the specification: connect() fails with a connection error,
\* disconnect(), and call(request) that returns the reply's root element or
\* fails with a connection error on I/O problems.

NoExc == "none"

SocketError == "socket.error"

\* The state a call works on: the client's fields, the transport's socket,
\* and what this call has done so far: the transport calls made, the reads
\* of the password file, the exception in flight and the value returned.
\* env.failAt is the position, among the transport calls of this call, of
\* the one that meets an I/O problem (0: none does).
Fails(m, env) == env.failAt = Len(m.calls) + 1

Rpc_connect(m, env) ==
    IF Fails(m, env)
    THEN [m EXCEPT !.sock = "closed", !.exc = SocketError,
                   !.calls = Append(@, [op |-> "connect", ok |-> FALSE])]
    ELSE [m EXCEPT !.sock = "open",
                   !.calls = Append(@, [op |-> "connect", ok |-> TRUE])]

Rpc_disconnect(m) ==
    [m EXCEPT !.sock = "closed",
              !.calls = Append(@, [op |-> "disconnect", ok |-> TRUE])]

\* call(request): reply is what the peer answers when the call goes through.
Rpc_call(m, request, reply, env) ==
    IF m.sock # "open" \/ Fails(m, env)
    THEN [m EXCEPT !.exc = SocketError,
                   !.calls = Append(@, [op |-> "call", ok |-> FALSE,
                                        request |-> request])]
    ELSE [m EXCEPT !.ret = reply,
                   !.calls = Append(@, [op |-> "call", ok |-> TRUE,
                                        request |-> request,
                                        reply |-> reply])]

\* ------------------------------------------------------------------- client

\* read_gui_rpc_password(): file is the content of GUI_RPC_PASSWD_FILE, None
\* when it cannot be opened; the function then returns None.
read_gui_rpc_password(file) ==
    IF file = None THEN None
    ELSE IF EndsWith(file[1], "\n")
         THEN Some(SubSeq(file[1], 1, Len(file[1]) - 1))
         ELSE file

\* hashlib.md5(s).hexdigest(): the digest is not computed; it is a term that
\* differs for different s. hexdigest() is lowercase already, so the lower()
\* that follows it changes nothing.
md5_hexdigest(s) == "md5(" \o s \o ")"

\* "x or ''" of an optional string.
OrEmpty(o) == IF o = None \/ o = Some("") THEN "" ELSE o[1]

\* authorize() taking every reply but "unauthorized" for a success.
authorize_NotUnauthorized(m, password, env) ==
    LET local == password = None /\ m.hostname = ""
        reply(m2) ==
            IF m2.exc # NoExc THEN m2
            ELSE [m2 EXCEPT !.ret = PyBool(m2.ret.tag # "unauthorized")]
        auth2(m1, pw) ==
            IF m1.exc # NoExc THEN m1
            ELSE reply(Rpc_call(m1,
                           "<auth2><nonce_hash>"
                               \o md5_hexdigest(FormatS(m1.ret.text)
                                                \o FormatS(pw))
                               \o "</nonce_hash></auth2>",
                           env.auth2, env))
        auth1(m0, pw) == auth2(Rpc_call(m0, "<auth1/>", env.auth1, env), pw)
    IN  IF local
        THEN auth1([m EXCEPT !.reads = @ + 1],
                   Some(OrEmpty(read_gui_rpc_password(env.passwdFile))))
        ELSE auth1(m, password)

authorize(m, password, env) ==
    LET local == password = None /\ m.hostname = ""
        reply(m2) ==
            IF m2.exc # NoExc THEN m2
            ELSE [m2 EXCEPT !.ret = PyBool(m2.ret.tag = "authorized")]
        auth2(m1, pw) ==
            IF m1.exc # NoExc THEN m1
            ELSE reply(Rpc_call(m1,
                           "<auth2><nonce_hash>"
                               \o md5_hexdigest(FormatS(m1.ret.text)
                                                \o FormatS(pw))
                               \o "</nonce_hash></auth2>",
                           env.auth2, env))
        auth1(m0, pw) == auth2(Rpc_call(m0, "<auth1/>", env.auth1, env), pw)
    IN  IF local
        THEN auth1([m EXCEPT !.reads = @ + 1],
                   Some(OrEmpty(read_gui_rpc_password(env.passwdFile))))
        ELSE auth1(m, password)

\* A decoded entity is returned, an exception met while decoding is raised.
ReturnParsed(m, parsed) ==
    IF IsRaised(parsed) THEN [m EXCEPT !.exc = parsed.v, !.ret = PyNone]
    ELSE [m EXCEPT !.ret = parsed]

exchange_versions(m, env) ==
    LET parse(m1) ==
            IF m1.exc # NoExc THEN m1
            ELSE ReturnParsed(m1, Struct_parse("VersionInfo", m1.ret))
    IN  parse(Rpc_call(m, "<exchange_versions/>", env.versions, env))

\* connect() exchanging versions before it authorizes.
connect_VersionsFirst(m, env) ==
    LET done(m3) ==
            IF m3.exc # NoExc THEN m3
            ELSE [m3 EXCEPT !.authorized = m3.ret.v, !.ret = PyNone]
        auth(m2) ==
            IF m2.exc # NoExc THEN m2
            ELSE done(authorize([m2 EXCEPT !.version = Some(m2.ret)],
                                m2.passwd, env))
        versions(m1) ==
            IF m1.exc = SocketError
            THEN [m1 EXCEPT !.exc = NoExc, !.connected = FALSE,
                            !.ret = PyNone]
            ELSE auth(exchange_versions([m1 EXCEPT !.connected = TRUE], env))
    IN  versions(Rpc_connect(m, env))

connect(m, env) ==
    LET done(m3) ==
            IF m3.exc # NoExc THEN m3
            ELSE [m3 EXCEPT !.version = Some(m3.ret), !.ret = PyNone]
        versions(m2) ==
            IF m2.exc # NoExc THEN m2
            ELSE done(exchange_versions(
                          [m2 EXCEPT !.authorized = m2.ret.v], env))
        auth(m1) ==
            IF m1.exc = SocketError
            THEN [m1 EXCEPT !.exc = NoExc, !.connected = FALSE,
                            !.ret = PyNone]
            ELSE versions(authorize([m1 EXCEPT !.connected = TRUE],
                                    m1.passwd, env))
    IN  auth(Rpc_connect(m, env))

\* disconnect() tearing the transport down only for a connected client.
disconnect_IfConnected(m) ==
    IF m.connected
    THEN [Rpc_disconnect(m) EXCEPT !.connected = FALSE, !.ret = PyNone]
    ELSE [m EXCEPT !.ret = PyNone]

disconnect(m) == [Rpc_disconnect(m) EXCEPT !.ret = PyNone]

\* get_cc_status() that leaves connected alone when the query fails.
get_cc_status_KeepsConnected(m, env) ==
    LET parse(m1) ==
            IF m1.exc = SocketError
            THEN [m1 EXCEPT !.exc = NoExc, !.ret = PyNone]
            ELSE ReturnParsed(m1, Struct_parse("CcStatus", m1.ret))
        query(m0) ==
            IF m0.exc # NoExc THEN m0
            ELSE parse(Rpc_call(m0, "<get_cc_status/>", env.reply, env))
    IN  IF ~ m.connected THEN query(connect(m, env)) ELSE query(m)

get_cc_status(m, env) ==
    LET parse(m1) ==
            IF m1.exc = SocketError
            THEN [m1 EXCEPT !.exc = NoExc, !.connected = FALSE,
                            !.ret = PyNone]
            ELSE ReturnParsed(m1, Struct_parse("CcStatus", m1.ret))
        query(m0) ==
            IF m0.exc # NoExc THEN m0
            ELSE parse(Rpc_call(m0, "<get_cc_status/>", env.reply, env))
    IN  IF ~ m.connected THEN query(connect(m, env)) ELSE query(m)

get_host_info(m, env) ==
    LET parse(m1) ==
            IF m1.exc # NoExc THEN m1
            ELSE ReturnParsed(m1, HostInfo_parse(m1.ret))
    IN  parse(Rpc_call(m, "<get_host_info/>", env.reply, env))

get_results(m, active_only, env) ==
    LET results(m1) ==
            IF m1.exc # NoExc THEN m1
            ELSE IF ~ (m1.ret.tag = "results")
                 THEN [m1 EXCEPT !.ret = PyList(<<>>)]
                 ELSE ReturnParsed(m1,
                          ParseEach("Result", m1.ret.children, 1, <<>>))
    IN  results(Rpc_call(m,
                    "<get_results><active_only>"
                        \o NatToStr(IF active_only THEN 1 ELSE 0)
                        \o "</active_only></get_results>",
                    env.reply, env))

\* "not reply" is true of an element without children.
get_projects(m, env) ==
    LET projects(m1) ==
            IF m1.exc # NoExc THEN m1
            ELSE IF Len(m1.ret.children) = 0 \/ ~ (m1.ret.tag = "projects")
                 THEN [m1 EXCEPT !.ret = PyList(<<>>)]
                 ELSE ReturnParsed(m1,
                          ParseEach("Project", m1.ret.children, 1, <<>>))
    IN  projects(Rpc_call(m, "<get_project_status/>", env.reply, env))

\* "%f" of a duration of d.s seconds and d.f tenths of a microsecond: six
\* decimals, the seventh rounded.
FormatF(d) ==
    LET micro == (d.f + 5) \div 10
    IN  IF micro = 1000000 THEN NatToStr(d.s + 1) \o ".000000"
        ELSE NatToStr(d.s) \o "." \o ZeroPad(micro, 6)

\* set_mode() refusing, without a request, when the client is not authorized.
set_mode_NeedsAuthorized(m, component, mode, duration, env) ==
    LET reply(m1) ==
            IF m1.exc = SocketError
            THEN [m1 EXCEPT !.exc = NoExc, !.ret = PyBool(FALSE)]
            ELSE [m1 EXCEPT !.ret = PyBool(m1.ret.tag = "success")]
        call(c, name) ==
            IF IsRaised(name) THEN [m EXCEPT !.exc = name.v]
            ELSE reply(Rpc_call(m,
                           "<set_" \o c \o "_mode>"
                               \o "<" \o Lower(name.v) \o "/><duration>"
                               \o FormatF(duration) \o "</duration>"
                               \o "</set_" \o c \o "_mode>",
                           env.reply, env))
    IN  IF ~ m.authorized THEN [m EXCEPT !.ret = PyBool(FALSE)]
        ELSE call(Replace(Replace(component, "cpu", "run"), "net", "network"),
                  RunMode_name(mode))

set_mode(m, component, mode, duration, env) ==
    LET reply(m1) ==
            IF m1.exc = SocketError
            THEN [m1 EXCEPT !.exc = NoExc, !.ret = PyBool(FALSE)]
            ELSE [m1 EXCEPT !.ret = PyBool(m1.ret.tag = "success")]
        call(c, name) ==
            IF IsRaised(name) THEN [m EXCEPT !.exc = name.v]
            ELSE reply(Rpc_call(m,
                           "<set_" \o c \o "_mode>"
                               \o "<" \o Lower(name.v) \o "/><duration>"
                               \o FormatF(duration) \o "</duration>"
                               \o "</set_" \o c \o "_mode>",
                           env.reply, env))
    IN  call(Replace(Replace(component, "cpu", "run"), "net", "network"),
             RunMode_name(mode))

set_run_mode(m, mode, duration, env) == set_mode(m, "cpu", mode, duration, env)

set_gpu_mode(m, mode, duration, env) == set_mode(m, "gpu", mode, duration, env)

set_network_mode(m, mode, duration, env) ==
    set_mode(m, "net", mode, duration, env)

run_benchmarks(m, env) ==
    LET reply(m1) ==
            IF m1.exc # NoExc THEN m1
            ELSE [m1 EXCEPT !.ret = PyBool(m1.ret.tag = "success")]
    IN  reply(Rpc_call(m, "<run_benchmarks/>", env.reply, env))

\* quit() giving the connection up whatever the reply.
quit_AlwaysDemotes(m, env) ==
    LET reply(m1) ==
            IF m1.exc # NoExc THEN m1
            ELSE [m1 EXCEPT !.connected = FALSE,
                            !.ret = PyBool(m1.ret.tag = "success")]
    IN  reply(Rpc_call(m, "<quit/>", env.reply, env))

quit(m, env) ==
    LET reply(m1) ==
            IF m1.exc # NoExc THEN m1
            ELSE IF m1.ret.tag = "success"
                 THEN [m1 EXCEPT !.connected = FALSE, !.ret = PyBool(TRUE)]
                 ELSE [m1 EXCEPT !.ret = PyBool(FALSE)]
    IN  reply(Rpc_call(m, "<quit/>", env.reply, env))

\* ---------------------------------------------------------------- the caller

\* BoincIndicator.update_status() of monitor.py: the status query, then the
\* menu set by boinc.connected and, when that is true, by the fields of the
\* status; reading a field of an absent status raises AttributeError. The
\* menu itself is not kept.
update_status(m, env) ==
    LET done(label) ==
            IF IsRaised(label) THEN label.v ELSE NoExc
        reason(status, field) == SuspendReason_name(status.f[field].v)
        network(status) ==
            IF status.f.network_suspend_reason.v > 0
            THEN done(reason(status, "network_suspend_reason"))
            ELSE NoExc
        gpu(status) ==
            LET then(exc) == IF exc # NoExc THEN exc ELSE network(status)
            IN  then(IF status.f.gpu_suspend_reason.v > 0
                     THEN done(reason(status, "gpu_suspend_reason"))
                     ELSE NoExc)
        menu(status) ==
            IF status.k # "obj" THEN "AttributeError"
            ELSE IF status.f.task_suspend_reason.v > 0
                      /\ status.f.task_suspend_reason.v # 64
                 THEN done(reason(status, "task_suspend_reason"))
                 ELSE gpu(status)
        shown(m1) ==
            IF m1.exc # NoExc THEN m1
            ELSE IF ~ m1.connected THEN [m1 EXCEPT !.ret = PyBool(TRUE)]
            ELSE [m1 EXCEPT !.exc = menu(m1.ret), !.ret = PyBool(TRUE)]
    IN  shown(get_cc_status(m, env))

\* ------------------------------------------------------------ the peer side
\* What the core client may answer, and the callers' arguments.

\* The largest number of entities in a results or projects reply.
MaxItems == 2

\* The largest code of the range of codes an enumeration is asked to name.
MaxCode == 11

\* The largest part of the versions that are compared exhaustively.
MaxPart == 1

\* The status queries made once the transport is healthy.
MaxPolls == 3

Auth1Replies == {Leaf("nonce", "abc"), Leaf("nonce", "1f0e"), Empty("nonce")}

Auth2Replies ==
    {Empty("authorized"), Empty("unauthorized"), Leaf("error", "unrecognized op")}

VersionReplies ==
    { Element("server_version", None,
          <<Leaf("major", "7"), Leaf("minor", "16"), Leaf("release", "6")>>),
      Element("server_version", None,
          <<Leaf("major", " 8.0 "), Leaf("build", "x64"), Empty("release")>>),
      Element("server_version", None,
          <<Leaf("major", "7"), Leaf("minor", "beta")>>) }

StatusReplies ==
    { Element("cc_status", None,
          <<Leaf("network_status", "0"), Leaf("ams_password_error", "0"),
            Leaf("task_suspend_reason", "4"), Leaf("task_mode", "3"),
            Leaf("task_mode_perm", "2"), Leaf("task_mode_delay", "3600.5"),
            Leaf("gpu_suspend_reason", "0"),
            Leaf("network_suspend_reason", "0")>>),
      Empty("unauthorized") }

HostInfoReplies ==
    { Element("host_info", None,
          <<Leaf("timezone", "-10800"), Leaf("domain_name", " box "),
            Leaf("p_ncpus", "4"), Leaf("p_fpops", "1500.25"),
            Element("coprocs", None,
                <<Element("coproc", None,
                      <<Leaf("type", "NVIDIA"), Leaf("count", "1"),
                        Empty("have_cuda")>>)>>)>>),
      Empty("unauthorized") }

ResultItems ==
    { Element("result", None,
          <<Leaf("name", "wu_1_0"), Leaf("state", "2"),
            Leaf("final_cpu_time", "0"),
            Element("active_task", None,
                <<Leaf("active_task_state", "1"),
                  Leaf("current_cpu_time", "42.0"),
                  Leaf("elapsed_time", "0.000000")>>)>>),
      Element("result", None,
          <<Leaf("name", "wu_2_0"), Leaf("state", "5"),
            Leaf("final_cpu_time", "12.5"),
            Leaf("final_elapsed_time", "13"), Empty("ready_to_report"),
            Leaf("new_server_field", "1")>>),
      Element("result", None,
          <<Leaf("name", "wu_3_0"), Leaf("version_num", "n/a")>>) }

ProjectItems ==
    { Element("project", None,
          <<Leaf("master_url", "http://a/"), Leaf("project_name", "A"),
            Leaf("user_total_credit", "100.5"), Leaf("hostid", "7")>>),
      Element("project", None,
          <<Leaf("master_url", "http://b/"), Leaf("rpc_seqno", "12"),
            Empty("dont_request_more_work")>>) }

\* The sequences of at most n members of S.
RECURSIVE SeqsUpTo(_, _)
SeqsUpTo(S, n) ==
    IF n = 0 THEN {<<>>}
    ELSE LET shorter == SeqsUpTo(S, n - 1)
         IN  shorter \cup {Append(s, x) : s \in shorter, x \in S}

ResultsReplies ==
    {Element("results", None, items) : items \in SeqsUpTo(ResultItems, MaxItems)}
        \cup {Empty("unauthorized")}

ProjectsReplies ==
    {Element("projects", None, items) :
        items \in SeqsUpTo(ProjectItems, MaxItems)}
        \cup {Empty("unauthorized")}

OutcomeReplies ==
    {Empty("success"), Empty("unauthorized"), Leaf("error", "unrecognized op")}

RunModes == {ALWAYS, AUTO, NEVER, RESTORE}

\* Durations in seconds (s) and tenths of a microsecond (f): permanent, one
\* hour, and a third of a microsecond.
Durations == {[s |-> 0, f |-> 0], [s |-> 3600, f |-> 0], [s |-> 0, f |-> 3]}

Components == {"run", "cpu", "gpu", "network", "net"}

Hostnames == {"", "192.168.2.1"}

Passwords == {None, Some("pw")}

PasswordFiles == {None, Some("fp\n")}

\* What does not matter to a call is given one fixed value, so that the same
\* behaviour of the peer is not counted several times.
AnyReply == Empty("unused")

Env(failAt, auth1, auth2, versions, reply) ==
    [failAt |-> failAt, auth1 |-> auth1, auth2 |-> auth2,
     versions |-> versions, reply |-> reply]

\* The peer during a call that sends one request: the I/O problem, or a reply.
OneCallEnvs(replies) ==
    {Env(1, AnyReply, AnyReply, AnyReply, AnyReply)}
        \cup {Env(0, AnyReply, AnyReply, AnyReply, r) : r \in replies}

\* The peer during connect(): an I/O problem at the k-th transport call
\* after the replies before it, or every reply.
ConnectEnvs ==
    {Env(k, AnyReply, AnyReply, AnyReply, AnyReply) : k \in 1..2}
        \cup {Env(3, a1, AnyReply, AnyReply, AnyReply) : a1 \in Auth1Replies}
        \cup {Env(4, a1, a2, AnyReply, AnyReply) :
                 a1 \in Auth1Replies, a2 \in Auth2Replies}
        \cup {Env(0, a1, a2, v, AnyReply) :
                 a1 \in Auth1Replies, a2 \in Auth2Replies, v \in VersionReplies}

\* The peer during get_cc_status() of a client that reconnects first.
ReconnectEnvs ==
    {e \in ConnectEnvs : e.failAt # 0}
        \cup {[e EXCEPT !.failAt = 5] : e \in {c \in ConnectEnvs : c.failAt = 0}}
        \cup {[e EXCEPT !.reply = r] :
                 e \in {c \in ConnectEnvs : c.failAt = 0}, r \in StatusReplies}

\* -------------------------------------------------------------------- state

VARIABLES
    hostname,    \* BoincClient.hostname
    passwd,      \* BoincClient.passwd, None when none was supplied
    version,     \* BoincClient.version, None until a version exchange
    authorized,  \* BoincClient.authorized
    connected,   \* BoincClient.connected
    sock,        \* the transport's connection: "open" or "closed"
    passwdFile,  \* the content of GUI_RPC_PASSWD_FILE, None when unreadable
    last,        \* the last call of the caller and how it ended
    input,       \* the function and arguments of a call of a function of
                 \* the library that has yet to be made, NoInput otherwise
    polls        \* how each get_cc_status() ended that was made since the
                 \* transport became healthy for good, in order

vars == <<hostname, passwd, version, authorized, connected, sock, passwdFile,
          last, input, polls>>

NoInput == [f |-> "none", args |-> <<>>]

\* The client and its transport as a call finds them.
Self ==
    [hostname |-> hostname, passwd |-> passwd, version |-> version,
     authorized |-> authorized, connected |-> connected, sock |-> sock,
     calls |-> <<>>, reads |-> 0, exc |-> NoExc, ret |-> PyNone]

WithFile(env) == env @@ [passwdFile |-> passwdFile]

\* The call op(args) ended as m says: the fields it assigned, and whether it
\* returned (exc = NoExc, with ret) or raised exc to its caller.
Ended(op, args, m) ==
    /\ version' = m.version
    /\ authorized' = m.authorized
    /\ connected' = m.connected
    /\ sock' = m.sock
    /\ last' = [op |-> op, args |-> args, calls |-> m.calls,
                reads |-> m.reads, exc |-> m.exc,
                ret |-> IF m.exc = NoExc THEN m.ret ELSE PyNone]
    /\ UNCHANGED <<hostname, passwd, passwdFile, input>>

\* A call made while the transport may still meet I/O problems.
Done(op, args, m) == Ended(op, args, m) /\ UNCHANGED polls

NoArgs == <<>>

\* BoincClient.__init__, before any call.
Init ==
    /\ hostname \in Hostnames
    /\ passwd \in Passwords
    /\ passwdFile \in PasswordFiles
    /\ version = None
    /\ authorized = FALSE
    /\ connected = FALSE
    /\ sock = "closed"
    /\ last = [op |-> "__init__", args |-> NoArgs, calls |-> <<>>,
               reads |-> 0, exc |-> NoExc, ret |-> PyNone]
    /\ input = NoInput
    /\ polls = <<>>

Connect ==
    \E env \in ConnectEnvs : Done("connect", NoArgs, connect(Self, WithFile(env)))

Disconnect == Done("disconnect", NoArgs, disconnect(Self))

GetCcStatus ==
    \E env \in (IF connected THEN OneCallEnvs(StatusReplies) ELSE ReconnectEnvs) :
        Done("get_cc_status", NoArgs, get_cc_status(Self, WithFile(env)))

UpdateStatus ==
    \E env \in (IF connected THEN OneCallEnvs(StatusReplies) ELSE ReconnectEnvs) :
        Done("update_status", NoArgs, update_status(Self, WithFile(env)))

\* get_cc_status() called again and again by a caller that polls, from the
\* moment the transport is healthy for good: no transport call meets an I/O
\* problem any more, and the peer answers each request, with any of its
\* replies.
Poll ==
    /\ Len(polls) < MaxPolls
    /\ \E env \in {e \in ReconnectEnvs : e.failAt = 0} :
           LET ended(m) ==
                   /\ Ended("get_cc_status", NoArgs, m)
                   /\ polls' = Append(polls,
                          [status |-> m.exc = NoExc /\ m.ret.k = "obj",
                           connected |-> m.connected])
           IN  ended(get_cc_status(Self, WithFile(env)))

GetHostInfo ==
    \E env \in OneCallEnvs(HostInfoReplies) :
        Done("get_host_info", NoArgs, get_host_info(Self, env))

GetResults ==
    \E env \in OneCallEnvs(ResultsReplies), active_only \in BOOLEAN :
        Done("get_results", <<active_only>>,
             get_results(Self, active_only, env))

GetProjects ==
    \E env \in OneCallEnvs(ProjectsReplies) :
        Done("get_projects", NoArgs, get_projects(Self, env))

SetMode ==
    \E env \in OneCallEnvs(OutcomeReplies), component \in Components,
       mode \in RunModes, duration \in Durations :
        Done("set_mode", <<component, mode, duration>>,
             set_mode(Self, component, mode, duration, env))

SetRunMode ==
    \E env \in OneCallEnvs(OutcomeReplies), mode \in RunModes,
       duration \in Durations :
        Done("set_run_mode", <<mode, duration>>,
             set_run_mode(Self, mode, duration, env))

SetGpuMode ==
    \E env \in OneCallEnvs(OutcomeReplies), mode \in RunModes,
       duration \in Durations :
        Done("set_gpu_mode", <<mode, duration>>,
             set_gpu_mode(Self, mode, duration, env))

SetNetworkMode ==
    \E env \in OneCallEnvs(OutcomeReplies), mode \in RunModes,
       duration \in Durations :
        Done("set_network_mode", <<mode, duration>>,
             set_network_mode(Self, mode, duration, env))

RunBenchmarks ==
    \E env \in OneCallEnvs(OutcomeReplies) :
        Done("run_benchmarks", NoArgs, run_benchmarks(Self, env))

Quit ==
    \E env \in OneCallEnvs(OutcomeReplies) :
        Done("quit", NoArgs, quit(Self, env))

\* The function input.f applied to input.args gave result: a value, or an
\* exception raised to the caller. The client is not involved.
Applied(result) ==
    /\ last' = [op |-> input.f, args |-> input.args, calls |-> <<>>,
                reads |-> 0,
                exc |-> IF IsRaised(result) THEN result.v ELSE NoExc,
                ret |-> IF IsRaised(result) THEN PyNone ELSE result]
    /\ input' = NoInput
    /\ UNCHANGED <<hostname, passwd, version, authorized, connected, sock,
                   passwdFile, polls>>

\* A call of the function f of the library with each of the arguments.
Calls(f, arguments) == {[f |-> f, args |-> a] : a \in arguments}

\* cls.parse(xml) of the entity class named cls.
Parse(cls, xml) ==
    CASE cls = "Result" -> Result_parse(xml)
      [] cls = "Project" -> Project_parse(xml)
      [] cls = "HostInfo" -> HostInfo_parse(xml)
      [] OTHER -> Struct_parse(cls, xml)

\* children with e put in at position i.
InsertAt(children, i, e) ==
    SubSeq(children, 1, i - 1) \o <<e>> \o SubSeq(children, i, Len(children))

\* A reply element of each of four entity classes, each with one more child
\* at each position: a child the class has no field for (two of them named
\* like something else the class has), or a child for a numeric field whose
\* text is no number. The third component is the position of that child.
MapperInputs ==
    LET base ==
            [VersionInfo |->
                 <<Leaf("major", "7"), Leaf("minor", "16"),
                   Leaf("release", "6")>>,
             Result |->
                 <<Leaf("name", "wu_1_0"), Leaf("state", "2"),
                   Leaf("final_cpu_time", "12.5")>>,
             Project |->
                 <<Leaf("master_url", "http://a/"), Leaf("project_name", "A"),
                   Leaf("hostid", "7")>>,
             CcStatus |->
                 <<Leaf("network_status", "0"), Leaf("task_mode", "3"),
                   Leaf("task_mode_delay", "3600.5")>>]
        more ==
            {Leaf("build", "x64"), Empty("new_server_field"),
             Leaf("_tuple", "x"), Leaf("parse", "x"),
             Leaf("minor", "beta"), Leaf("version_num", "n/a"),
             Leaf("hostid", " "), Leaf("task_mode_delay", "soon")}
    IN  {<<cls, Element("reply", None, base[cls]), 0>> : cls \in DOMAIN base}
            \cup {<<cls, Element("reply", None, InsertAt(base[cls], i, e)), i>> :
                     cls \in DOMAIN base, i \in 1..4, e \in more}

\* A result with each combination of texts of its four time fields (None: no
\* such child), directly in the result element or in its active_task child.
ShimInputs ==
    LET opt(tag, text) == IF text = None THEN <<>> ELSE <<Leaf(tag, text[1])>>
        times(e, c, fe, fc) ==
            opt("elapsed_time", e) \o opt("final_cpu_time", fc)
                \o opt("current_cpu_time", c) \o opt("final_elapsed_time", fe)
        result(inside, t) ==
            Element("result", None,
                    <<Leaf("name", "wu_1_0")>>
                        \o (IF inside
                            THEN <<Element("active_task", None, t)>>
                            ELSE t))
    IN  {<<"Result", result(inside, times(e, c, fe, fc)), 0>> :
            inside \in BOOLEAN,
            e \in {None, Some("0"), Some("0.000000"), Some("7.5")},
            c \in {None, Some("0"), Some("42.0")},
            fe \in {None, Some("0.000000"), Some("13")},
            fc \in {None, Some("0"), Some("12.5")}}

ParseInputs == Calls("parse", MapperInputs \cup ShimInputs)

StructParse ==
    /\ input.f = "parse"
    /\ Applied(Parse(input.args[1], input.args[2]))

\* An element without text, and with each of some texts.
BoolInputs ==
    Calls("parse_bool",
          {<<Empty("suspended_via_gui")>>}
              \cup {<<Leaf("suspended_via_gui", text)>> :
                       text \in {"", "0", "1", "00", "0.0", "false", "False",
                                 "FALSE", "true", "no", " ", " 0 ",
                                 "False\n"}})

ParseBoolCall ==
    /\ input.f = "parse_bool"
    /\ Applied(parse_bool(input.args[1]))

\* The versions compared: every version of small parts, and three that
\* differ in the parts that decide.
Versions ==
    {VersionInfo(v[1], v[2], v[3]) :
        v \in ((0 .. MaxPart) \X (0 .. MaxPart) \X (0 .. MaxPart))
                \cup {<<1, 2, 3>>, <<1, 3, 0>>, <<2, 0, 0>>}}

\* Three values to compare: versions, the second possibly a value of another
\* type.
VersionInputs ==
    Calls("VersionInfo.compare",
          Versions \X (Versions \cup {PyInt(1), PyStr("1.2.3"), PyNone})
              \X Versions)

\* Three values compared with each other, and the first with itself.
VersionCompare ==
    /\ input.f = "VersionInfo.compare"
    /\ Applied([k |-> "comparisons",
                ab |-> Comparisons(input.args[1], input.args[2]),
                bc |-> Comparisons(input.args[2], input.args[3]),
                ac |-> Comparisons(input.args[1], input.args[3]),
                aa |-> Comparisons(input.args[1], input.args[1])])

\* Each enumeration asked to name a code: the codes of a range around the
\* small members, and the large members of SuspendReason with their
\* neighbours.
EnumInputs ==
    Calls("Enum.name",
          {"NetworkStatus", "SuspendReason", "RunMode", "CpuSched",
           "ResultState", "Process"}
              \X ((-2 .. MaxCode)
                     \cup {16, 32, 64, 128, 256, 512, 1024, 2048, 4095}
                     \cup (4096 .. 4100)))

EnumNameCall ==
    /\ input.f = "Enum.name"
    /\ Applied(EnumName(input.args[1], input.args[2]))

\* connect() with one nonce and one version reply, where the handshake is not
\* what is looked at.
BriefConnectEnvs ==
    {e \in ConnectEnvs :
        /\ e.auth1 \in {AnyReply, Leaf("nonce", "abc")}
        /\ e.versions \in {AnyReply,
               Element("server_version", None,
                   <<Leaf("major", "7"), Leaf("minor", "16"),
                     Leaf("release", "6")>>)}}

ConnectBrief ==
    \E env \in BriefConnectEnvs :
        Done("connect", NoArgs, connect(Self, WithFile(env)))

\* A local client without a password, and the password file readable.
InitLocal ==
    /\ Init
    /\ hostname = ""
    /\ passwd = None
    /\ passwdFile # None

\* The session: connection, status polling, host information, termination.
Next ==
    \/ Connect
    \/ Disconnect
    \/ GetCcStatus
    \/ GetHostInfo
    \/ RunBenchmarks
    \/ Quit

Spec == Init /\ [][Next]_vars

\* The control operations.
NextControl ==
    \/ ConnectBrief
    \/ Disconnect
    \/ SetRunMode
    \/ SetGpuMode
    \/ SetNetworkMode
    \/ RunBenchmarks
    \/ Quit

SpecControl == InitLocal /\ [][NextControl]_vars

\* The collection queries.
NextQuery ==
    \/ ConnectBrief
    \/ Disconnect
    \/ GetResults
    \/ GetProjects

SpecQuery == InitLocal /\ [][NextQuery]_vars

\* The polling caller: the status query on a timer, between reconnects,
\* disconnects and quits.
NextPolling ==
    \/ ConnectBrief
    \/ Disconnect
    \/ Quit
    \/ GetCcStatus
    \/ UpdateStatus

SpecPolling == InitLocal /\ [][NextPolling]_vars

\* The general mode setter, called with each component name.
NextMode ==
    \/ ConnectBrief
    \/ SetMode

SpecMode == InitLocal /\ [][NextMode]_vars

\* The handshake of clients constructed for more targets, with more
\* passwords and more contents of the password file.
InitHandshake ==
    /\ hostname \in Hostnames \cup {"localhost", "127.0.0.1"}
    /\ passwd \in Passwords \cup {Some("")}
    /\ passwdFile \in PasswordFiles \cup {Some(""), Some("fp"), Some("fp\n\n")}
    /\ version = None
    /\ authorized = FALSE
    /\ connected = FALSE
    /\ sock = "closed"
    /\ last = [op |-> "__init__", args |-> NoArgs, calls |-> <<>>,
               reads |-> 0, exc |-> NoExc, ret |-> PyNone]
    /\ input = NoInput
    /\ polls = <<>>

NextHandshake ==
    \/ ConnectBrief
    \/ Disconnect

SpecHandshake == InitHandshake /\ [][NextHandshake]_vars

\* Any session of connecting, disconnecting, terminating the peer and
\* querying the status over a transport that may fail, and then the polling
\* of the status over a transport that is healthy from then on.
NextRecovery ==
    \/ polls = <<>> /\ ConnectBrief
    \/ polls = <<>> /\ Disconnect
    \/ polls = <<>> /\ Quit
    \/ polls = <<>> /\ GetCcStatus
    \/ Poll

SpecRecovery == InitLocal /\ [][NextRecovery]_vars

\* The decoders and the other functions of the library, applied to inputs of
\* their own.
NextDecode ==
    \/ EnumNameCall
    \/ VersionCompare
    \/ StructParse
    \/ ParseBoolCall

\* A client just constructed, and a call of a function about to be made.
InitDecode ==
    /\ hostname = ""
    /\ passwd = None
    /\ passwdFile = None
    /\ version = None
    /\ authorized = FALSE
    /\ connected = FALSE
    /\ sock = "closed"
    /\ last = [op |-> "__init__", args |-> NoArgs, calls |-> <<>>,
               reads |-> 0, exc |-> NoExc, ret |-> PyNone]
    /\ polls = <<>>
    /\ \/ input \in EnumInputs
       \/ input \in VersionInputs
       \/ input \in ParseInputs
       \/ input \in BoolInputs

SpecDecode == InitDecode /\ [][NextDecode]_vars


\* ------------------------------------------------------------------- claims

\* Some transport call of the last call met an I/O problem.
TransportFailed == \E i \in 1..Len(last.calls) : ~ last.calls[i].ok

\* The last call returned to its caller (it did not raise).
Returned == last.exc = NoExc

\* The operations of the client other than connect, disconnect and
\* get_cc_status.
OtherOperations ==
    {"get_host_info", "get_results", "get_projects", "set_run_mode",
     "set_gpu_mode", "set_network_mode", "run_benchmarks", "quit"}

ModeSetters == {"set_run_mode", "set_gpu_mode", "set_network_mode"}

ControlOperations == ModeSetters \cup {"run_benchmarks", "quit"}

\* C1: if the transport fails at any point during connect(), connect()
\* returns without raising and connected is false afterwards.
C1_ConnectSwallowsTransportFailure ==
    (last.op = "connect" /\ TransportFailed) => (Returned /\ ~ connected)

\* C2: if the transport fails anywhere during get_cc_status(), the reconnect's
\* handshake included, the call returns an absent result with connected false
\* and raises nothing.
C2_StatusSwallowsTransportFailure ==
    (last.op = "get_cc_status" /\ TransportFailed)
        => (Returned /\ last.ret = PyNone /\ ~ connected)

\* C3: a transport error during any other operation is never raised to the
\* caller: the call ends with connected false and an empty or absent result.
C3_OperationsSwallowTransportFailure ==
    (last.op \in OtherOperations /\ TransportFailed)
        => /\ Returned
           /\ ~ connected
           /\ last.ret \in {PyNone, PyList(<<>>), PyBool(FALSE)}

\* The password the handshake is to use, where the policy names one: the
\* one supplied, else for the local host the password file without one
\* trailing newline, or the empty string when the file cannot be read.
PasswordNamed == passwd # None \/ hostname = ""

PolicyPassword ==
    IF passwd # None THEN passwd[1]
    ELSE IF passwdFile = None THEN ""
    ELSE IF EndsWith(passwdFile[1], "\n")
         THEN SubSeq(passwdFile[1], 1, Len(passwdFile[1]) - 1)
         ELSE passwdFile[1]

SendsRequest(l) == Len(l.calls) >= 1 /\ l.calls[1].op = "call"

\* C5: after connect() on a healthy transport, authorized is true exactly when
\* the auth2 reply is tagged "authorized"; with any other tag authorized is
\* false, connected is true, the transport is left open, the version exchange
\* is still performed, and the operation that follows is sent to the
\* transport.
C5_AuthFailureNotFatal ==
    /\ [](last.op = "connect" /\ ~ TransportFailed
            => /\ authorized = (last.calls[3].reply.tag = "authorized")
               /\ connected
               /\ sock = "open"
               /\ last.calls[4].request = "<exchange_versions/>")
    /\ [][(last.op = "connect" /\ ~ TransportFailed /\ ~ authorized
             /\ last'.op \notin {"connect", "disconnect"})
            => SendsRequest(last')]_vars

C5_Witness ==
    /\ last.op = "connect"
    /\ ~ TransportFailed
    /\ last.calls[3].reply.tag = "error"
    /\ ~ authorized
    /\ connected
    /\ sock = "open"

\* C6: disconnect() may be called in any state; it always invokes the
\* transport teardown and nothing else, and a second disconnect() in a row
\* leaves the client's fields and the transport as the first left them.
C6_DisconnectIdempotent ==
    /\ [](ENABLED Disconnect)
    /\ [](last.op = "disconnect"
            => /\ Returned
               /\ last.calls = <<[op |-> "disconnect", ok |-> TRUE]>>)
    /\ [][(last.op = "disconnect" /\ last'.op = "disconnect")
            => UNCHANGED <<hostname, passwd, version, authorized, connected,
                           sock>>]_vars

C6_Witness ==
    /\ last.op = "disconnect"
    /\ connected
    /\ authorized
    /\ sock = "closed"

\* C7: quit() sets connected to false exactly when the reply is tagged
\* "success"; with any other tag connected, authorized and version are left
\* as they were.
C7_QuitDemotesOnSuccess ==
    [][(last'.op = "quit" /\ last'.exc = NoExc)
         => IF last'.calls[1].reply.tag = "success"
            THEN ~ connected'
            ELSE UNCHANGED <<connected, authorized, version>>]_vars

C7_Witness ==
    /\ last.op = "quit"
    /\ Returned
    /\ last.calls[1].reply.tag = "success"
    /\ ~ connected
    /\ authorized

\* C8: each control operation sends exactly one request and returns true
\* exactly when the reply is tagged "success", whatever connected, authorized
\* and the duration are; the mode setters and run_benchmarks keep nothing in
\* the client, so nothing is left to send later.
C8_ControlReturnsSuccessTag ==
    /\ [](last.op \in ControlOperations
            => /\ Len(last.calls) = 1
               /\ last.calls[1].op = "call"
               /\ last.calls[1].ok
                    => /\ Returned
                       /\ last.ret
                            = PyBool(last.calls[1].reply.tag = "success")
               /\ (Returned /\ last.ret = PyBool(TRUE)) => last.calls[1].ok)
    /\ [][last'.op \in ModeSetters \cup {"run_benchmarks"}
            => UNCHANGED <<version, authorized, connected, sock>>]_vars

C8_Witness ==
    /\ last.op = "set_gpu_mode"
    /\ last.args[2].s > 0
    /\ ~ connected
    /\ ~ authorized
    /\ Returned
    /\ last.ret = PyBool(TRUE)

\* The element name of each mode.
ModeElement(mode) ==
    CASE mode = ALWAYS -> "always" [] mode = AUTO -> "auto"
      [] mode = NEVER -> "never" [] mode = RESTORE -> "restore"

\* The decimal text of six decimals that denotes the duration d, None when d
\* has a seventh decimal.
SixDecimals(d) ==
    IF d.f % 10 = 0
    THEN Some(NatToStr(d.s) \o "." \o ZeroPad(d.f \div 10, 6))
    ELSE None

\* C9: for every mode and every duration >= 0 each mode setter sends a
\* request whose verb is its own name and whose body is one empty element
\* named after the mode (always, auto, never, restore) followed by a duration
\* element carrying the caller's duration unchanged.
C9_ModeRequest ==
    last.op \in ModeSetters
        => /\ SixDecimals(last.args[2]) # None
           /\ last.calls[1].request
                = "<" \o last.op \o ">"
                      \o "<" \o ModeElement(last.args[1]) \o "/>"
                      \o "<duration>" \o SixDecimals(last.args[2])[1]
                      \o "</duration>"
                      \o "</" \o last.op \o ">"

\* The collection tag each query expects.
CollectionTag(op) == IF op = "get_results" THEN "results" ELSE "projects"

\* C10: get_results and get_projects return an empty list, without failing,
\* when the reply's tag is not the expected collection tag; otherwise one
\* decoded entity per child of the reply, in the reply's order.
C10_CollectionDecoded ==
    (last.op \in {"get_results", "get_projects"} /\ last.calls[1].ok)
        => /\ Returned
           /\ last.ret.k = "list"
           /\ IF last.calls[1].reply.tag # CollectionTag(last.op)
              THEN last.ret.v = <<>>
              ELSE /\ Len(last.ret.v) = Len(last.calls[1].reply.children)
                   /\ \A i \in 1..Len(last.ret.v) :
                        last.ret.v[i]
                            = IF last.op = "get_results"
                              THEN Result_parse(last.calls[1].reply.children[i])
                              ELSE Project_parse(last.calls[1].reply.children[i])

\* The codes the enumeration cls knows.
KnownCodes(cls) ==
    LET members ==
            CASE cls = "NetworkStatus" -> NetworkStatus_dict
              [] cls = "SuspendReason" -> SuspendReason_dict
              [] cls = "RunMode" -> RunMode_dict
              [] cls = "CpuSched" -> CpuSched_dict
              [] cls = "ResultState" -> ResultState_dict
              [] cls = "Process" -> Process_dict
    IN  {members[i][2] : i \in 1..Len(members)}

\* C11: for each of the six enumerations and every code outside its known
\* set, the sentinel -1 included, the lookup of the label raises nothing and
\* gives the label of the UNKNOWN sentinel.
C11_UnknownCodeLabel ==
    (last.op = "Enum.name" /\ last.args[2] \notin KnownCodes(last.args[1]))
        => /\ Returned
           /\ last.ret.k = "str"
           /\ last.ret = EnumName(last.args[1], UNKNOWN)

\* a < b in the lexicographic order of (major, minor, release).
LexLess(a, b) ==
    \/ a.f.major.v < b.f.major.v
    \/ /\ a.f.major.v = b.f.major.v
       /\ \/ a.f.minor.v < b.f.minor.v
          \/ /\ a.f.minor.v = b.f.minor.v
             /\ a.f.release.v < b.f.release.v

\* The comparisons c say that exactly one of <, ==, > holds, and that <=, >=
\* and != agree with them.
Trichotomy(c) ==
    /\ \A op \in DOMAIN c : c[op] \in {PyBool(TRUE), PyBool(FALSE)}
    /\ \/ c["lt"].v /\ ~ c["eq"].v /\ ~ c["gt"].v
       \/ ~ c["lt"].v /\ c["eq"].v /\ ~ c["gt"].v
       \/ ~ c["lt"].v /\ ~ c["eq"].v /\ c["gt"].v
    /\ c["le"].v = (c["lt"].v \/ c["eq"].v)
    /\ c["ge"].v = (c["gt"].v \/ c["eq"].v)
    /\ c["ne"].v = ~ c["eq"].v

\* C12: the comparison of versions is the lexicographic total order on
\* (major, minor, release): exactly one of a<b, a==b, a>b, a==a, < is
\* transitive, and <=, >=, != agree with the order; comparing a version with
\* a value of another type has a defined outcome: == is false, != is true,
\* and each ordering is refused with TypeError.
C12_VersionOrder ==
    last.op = "VersionInfo.compare"
        => /\ last.ret.aa["eq"] = PyBool(TRUE)
           /\ Trichotomy(last.ret.aa)
           /\ Trichotomy(last.ret.ac)
           /\ last.ret.ac["lt"].v = LexLess(last.args[1], last.args[3])
           /\ IF IsVersionInfo(last.args[2])
              THEN /\ Trichotomy(last.ret.ab)
                   /\ Trichotomy(last.ret.bc)
                   /\ last.ret.ab["lt"].v
                        = LexLess(last.args[1], last.args[2])
                   /\ (last.ret.ab["lt"].v /\ last.ret.bc["lt"].v)
                        => last.ret.ac["lt"].v
              ELSE \A c \in {last.ret.ab, last.ret.bc} :
                     /\ c["eq"] = PyBool(FALSE)
                     /\ c["ne"] = PyBool(TRUE)
                     /\ \A op \in {"lt", "le", "gt", "ge"} :
                          c[op] = Raised("TypeError")

C12_Witness ==
    /\ last.op = "VersionInfo.compare"
    /\ last.args = <<VersionInfo(1, 2, 3), VersionInfo(1, 3, 0),
                     VersionInfo(2, 0, 0)>>
    /\ last.ret.ab["lt"] = PyBool(TRUE)
    /\ last.ret.bc["lt"] = PyBool(TRUE)
    /\ last.ret.ac["lt"] = PyBool(TRUE)
    /\ last.ret.ab["ge"] = PyBool(FALSE)

\* The value decoding gives the time field named tag of the result element
\* xml: that of the last child of that name, those of active_task after the
\* result's own, and 0.0 when there is none or it has no text.
DecodedTime(xml, tag) ==
    LET active == FindFrom(xml.children, "active_task", 1)
        all == xml.children
                   \o (IF active = None THEN <<>> ELSE active[1].children)
        named == SelectSeq(all, LAMBDA e : e.tag = tag)
    IN  IF named = <<>> THEN PyFloat(0)
        ELSE parse_float(named[Len(named)])

\* C13: in every Result that Result decoding returns, elapsed_time is the
\* decoded elapsed_time when that is nonzero and else the decoded
\* current_cpu_time; final_elapsed_time is the decoded final_elapsed_time
\* when nonzero and else the decoded final_cpu_time; current_cpu_time and
\* final_cpu_time are as decoded.
C13_ElapsedTimeShim ==
    (last.op = "parse" /\ last.args[1] = "Result" /\ Returned)
        => /\ last.ret.f.elapsed_time
                = IF DecodedTime(last.args[2], "elapsed_time").v # 0
                  THEN DecodedTime(last.args[2], "elapsed_time")
                  ELSE DecodedTime(last.args[2], "current_cpu_time")
           /\ last.ret.f.final_elapsed_time
                = IF DecodedTime(last.args[2], "final_elapsed_time").v # 0
                  THEN DecodedTime(last.args[2], "final_elapsed_time")
                  ELSE DecodedTime(last.args[2], "final_cpu_time")
           /\ last.ret.f.current_cpu_time
                = DecodedTime(last.args[2], "current_cpu_time")
           /\ last.ret.f.final_cpu_time
                = DecodedTime(last.args[2], "final_cpu_time")

C13_Witness ==
    /\ last.op = "parse"
    /\ last.args[1] = "Result"
    /\ Returned
    /\ last.ret.f.active_task = PyBool(TRUE)
    /\ DecodedTime(last.args[2], "elapsed_time") = PyFloat(0)
    /\ DecodedTime(last.args[2], "final_elapsed_time") = PyFloat(13000)
    /\ last.ret.f.elapsed_time = PyFloat(42000)
    /\ last.ret.f.final_elapsed_time = PyFloat(13000)
    /\ last.ret.f.final_cpu_time = PyFloat(12500)

\* The element xml without its child at position i.
Without(xml, i) ==
    [xml EXCEPT !.children =
        SubSeq(xml.children, 1, i - 1)
            \o SubSeq(xml.children, i + 1, Len(xml.children))]

\* The fields of the entity class cls.
Fields(cls) == DOMAIN ClassInit(cls)

\* C14: a child whose tag matches no field of the entity is skipped without
\* raising, the other children are decoded, and the entity ends as it would
\* have without that child.
C14_UnknownTagSkipped ==
    (last.op = "parse" /\ last.args[3] > 0
       /\ last.args[2].children[last.args[3]].tag \notin Fields(last.args[1]))
        => /\ Returned
           /\ last.ret
                = Parse(last.args[1], Without(last.args[2], last.args[3]))

\* C15: a child whose text does not decode for its field neither aborts nor
\* changes the decoding of the other fields: the entity is returned as it
\* would have been without that child.
C15_FaultyFieldIsolated ==
    (last.op = "parse" /\ last.args[3] > 0
       /\ last.args[2].children[last.args[3]].tag \in Fields(last.args[1])
       /\ IsRaised(Parse(last.args[1],
                         Element("reply", None,
                                 <<last.args[2].children[last.args[3]]>>))))
        => /\ Returned
           /\ last.ret
                = Parse(last.args[1], Without(last.args[2], last.args[3]))

\* C16: the boolean decode of an element gives true when the element has no
\* text, false when its text is, whatever the case of its letters, "0" or
\* "false", and true for every other text, the empty string included.
C16_BooleanDecode ==
    last.op = "parse_bool"
        => /\ Returned
           /\ last.ret
                = PyBool(\/ last.args[1].text = None
                         \/ Lower(last.args[1].text[1]) \notin {"0", "false"})

\* The client's target is the local host: no host was named, or the
\* loopback host was.
LocalTarget == hostname \in {"", "localhost", "127.0.0.1"}

\* C17: the handshake digest is made with the supplied password when one was
\* given, else for a local or loopback target with the content of the
\* password file less one trailing newline, or with the empty string when
\* the file cannot be read; the file is not read when a password was given
\* or the target is not the local host.
C17_PasswordResolution ==
    last.op = "connect"
        => /\ (passwd # None \/ ~ LocalTarget) => last.reads = 0
           /\ (Len(last.calls) >= 3 /\ last.calls[2].reply.text # None
                 /\ (passwd # None \/ LocalTarget))
                => last.calls[3].request
                       = "<auth2><nonce_hash>"
                             \o md5_hexdigest(last.calls[2].reply.text[1]
                                              \o PolicyPassword)
                             \o "</nonce_hash></auth2>"

\* The request verb documented for each component name.
ComponentVerb(component) ==
    CASE component \in {"run", "cpu"} -> "set_run_mode"
      [] component = "gpu" -> "set_gpu_mode"
      [] component \in {"network", "net"} -> "set_network_mode"

\* C18: set_mode(component, mode, duration) sends the request whose verb
\* belongs to the component: set_run_mode for 'run' and 'cpu', set_gpu_mode
\* for 'gpu', set_network_mode for 'network' and 'net'.
C18_ComponentVerb ==
    last.op = "set_mode"
        => /\ Len(last.calls) = 1
           /\ StartsWith(last.calls[1].request,
                         "<" \o ComponentVerb(last.args[1]) \o ">")
           /\ EndsWith(last.calls[1].request,
                       "</" \o ComponentVerb(last.args[1]) \o ">")

\* C19: in every reachable state, authorized implies connected.
C19_AuthorizedImpliesConnected == authorized => connected

\* C20: when get_cc_status() returns and connected is true right after, what
\* it returned is a status and not an absent value; the polling caller, which
\* reads connected after the call and then the fields of the status, never
\* reads a field of an absent status.
C20_ConnectedMeansStatus ==
    /\ (last.op = "get_cc_status" /\ Returned /\ connected)
         => (last.ret.k = "obj" /\ last.ret.cls = "CcStatus")
    /\ last.op = "update_status" => last.exc # "AttributeError"

C20_Witness ==
    /\ last.op = "update_status"
    /\ Returned
    /\ connected
    /\ Len(last.calls) = 5
    /\ last.calls[5].reply.tag = "cc_status"


\* C21: recovery by polling. From any reachable state of the client (after a
\* failed call, after a successful quit(), after disconnect()), once the
\* transport is healthy for good, the first or the second get_cc_status()
\* returns a status snapshot and leaves connected true.
C21_RecoveryByPolling ==
    Len(polls) >= 2
        => \E i \in 1..2 : polls[i].status /\ polls[i].connected

\* The version reply of the last call, if it had one, had numbers in all its
\* fields.
NumericVersionReply ==
    \A i \in 1..Len(last.calls) :
        (/\ last.calls[i].op = "call"
         /\ last.calls[i].ok
         /\ last.calls[i].request = "<exchange_versions/>")
            => ~ IsRaised(Struct_parse("VersionInfo", last.calls[i].reply))

\* The same recovery for a peer whose version replies decode: a second
\* status query that reconnected and had such a reply was preceded by, or
\* is, one that returned a snapshot with connected true.
RecoveryWithNumericReplies ==
    (Len(polls) = 2 /\ NumericVersionReply)
        => \E i \in 1..2 : polls[i].status /\ polls[i].connected

====
